---- MODULE Spec2Model ----
(***************************************************************************)
(* Model of streamlit_app.py: the cached loader fetch_github_data, and the *)
(* script body that filters the loaded table by the search box's text.     *)
(*                                                                         *)
(* Strings are sequences of chunks.  Titles and queries are sequences of   *)
(* one-character chunks, so that str.lower, `in` and the regular           *)
(* expression search of Series.str.contains work character by character.   *)
(***************************************************************************)
EXTENDS Integers, Sequences, FiniteSets, TLC

\* ---------------------------------------------------------------- bounds
MaxRecords == 2
MaxTitleLen == 2
MaxQueryLen == 2

\* ------------------------------------------------------------- constants
BASE_DOC_URL == <<"https://developer.apple.com">>

\* float('nan'): the value pandas stores in a cell whose key the record lacks.
NaN == <<"NaN">>
\* Python's None, the value every handled failure of the loader returns.
None == [type |-> "NoneType"]
\* A script variable that the current run has not assigned.
Unset == [type |-> "unset"]

\* ----------------------------------------------------------------- inputs
TitleChars == {"T", "x"}
QueryChars == {"t", "T", " ", ".", "(", "*"}
Paths == {<<"/a">>, <<"/b">>}

SeqsUpTo(S, n) == UNION {[1..k -> S] : k \in 0..n}

Titles == SeqsUpTo(TitleChars, MaxTitleLen) \ {<<>>}
Queries == SeqsUpTo(QueryChars, MaxQueryLen)

\* The elements of data['links']: dicts that carry both keys, or lack one.
RawRecords ==
    {[title |-> t, url |-> u] : t \in Titles, u \in Paths}
        \cup {[title |-> t] : t \in Titles}
        \cup {[url |-> u] : u \in Paths}

\* What the source can answer with when the transport succeeds.
Bodies ==
    {[kind |-> k, has_links |-> FALSE, links |-> <<>>] :
        k \in {"malformed", "number", "array", "object"}}
        \cup {[kind |-> "object", has_links |-> TRUE, links |-> l] :
                l \in SeqsUpTo(RawRecords, MaxRecords)}

NoBody == [kind |-> "none", has_links |-> FALSE, links |-> <<>>]

Responses ==
    {[transport |-> "error", body |-> NoBody]}
        \cup {[transport |-> "ok", body |-> b] : b \in Bodies}

\* ------------------------------------------------------------ str helpers
LowerChar(c) == IF c = "T" THEN "t" ELSE c

\* str.lower(); Series.str.lower() leaves a NaN cell NaN.
Lower(s) == IF s = NaN THEN NaN ELSE [i \in 1..Len(s) |-> LowerChar(s[i])]

\* f"{x}" of a cell: a string as it is, float('nan') as "nan".
Format(x) == IF x = NaN THEN <<"nan">> ELSE x

\* ---------------------------------------------------------------- loader
IsDataFrame(v) == v.type = "DataFrame"

\* pd.DataFrame(list of dicts): the columns are the union of the keys, one
\* row per dict in list order, NaN where a dict lacks a column.
DataFrame(links) ==
    LET cols == UNION {DOMAIN links[i] : i \in 1..Len(links)}
    IN  [type |-> "DataFrame",
         columns |-> cols,
         rows |-> [i \in 1..Len(links) |->
                     [c \in cols |->
                        IF c \in DOMAIN links[i] THEN links[i][c] ELSE NaN]]]

\* The link without the base URL in front.
FullUrlNoBase(x) == Format(x)

\* lambda x: f"{BASE_DOC_URL}{x}"
FullUrl(x) == BASE_DOC_URL \o Format(x)

\* df['full_url'] = df['url'].apply(...)
WithFullUrl(df) ==
    [df EXCEPT
       !.columns = @ \cup {"full_url"},
       !.rows = [i \in 1..Len(df.rows) |->
                   [c \in df.columns \cup {"full_url"} |->
                      IF c = "full_url" THEN FullUrl(df.rows[i]["url"])
                      ELSE df.rows[i][c]]]]

Return(v, m) == [raised |-> "none", value |-> v, msg |-> m]
Raise(e) == [raised |-> e, value |-> None, msg |-> "none"]

\* No request has been answered in the current run.
NoResponse == [transport |-> "none", body |-> NoBody]

\* The body of fetch_github_data for one answer of the source.  A body that
\* is not JSON is caught by one of the two except clauses (which one depends
\* on the requests version) and gives None either way; `'links' in data` is
\* a TypeError on a number and False on a list of records.
fetch_github_data(r) ==
    IF r.transport = "error" THEN Return(None, "fetch")
    ELSE IF r.body.kind = "malformed" THEN Return(None, "parse")
    ELSE IF r.body.kind = "number" THEN Raise("TypeError")
    ELSE IF r.body.kind = "array" THEN Return(None, "schema")
    ELSE IF ~r.body.has_links THEN Return(None, "schema")
    ELSE LET df == DataFrame(r.body.links)
         IN  IF "url" \notin df.columns THEN Raise("KeyError")
             ELSE Return(WithFullUrl(df), "none")

\* A store that never finds the value it holds.
CacheLookupNever(c) == FALSE

\* st.cache_data: is there a stored return value for the call?
CacheLookup(c) == c.populated

EmptyCache == [populated |-> FALSE, value |-> None, msg |-> "none"]

\* ---------------------------------------------------------------- filter
\* The filter applied whatever the search box holds.
TruthyAlways(s) == TRUE

\* `if search_term:` - a str is true when it is not empty.
Truthy(s) == s # <<>>

\* The search box's text used as typed.
SearchTermRaw(q) == q

\* st.text_input(...).lower(), lines 71-76.
SearchTerm(q) == Lower(q)

\* re.compile(pat): a "(" that nothing closes is an error (no ")" is among
\* the characters typed here), a "*" needs something to repeat and cannot
\* repeat a "*".
Compiles(p) ==
    /\ \A i \in 1..Len(p) : p[i] # "("
    /\ \A i \in 1..Len(p) : p[i] = "*" => (i > 1 /\ p[i - 1] # "*")

Rest(s, k) == SubSeq(s, k + 1, Len(s))

\* One pattern character against one subject character: "." is any.
MatchChar(c, x) == c = "." \/ c = x

\* regex.match of a compiled pattern at the head of s.
RECURSIVE MatchHere(_, _)
MatchHere(p, s) ==
    IF p = <<>> THEN TRUE
    ELSE IF Len(p) >= 2 /\ p[2] = "*"
    THEN \E k \in 0..Len(s) :
            /\ \A i \in 1..k : MatchChar(p[1], s[i])
            /\ MatchHere(Rest(p, 2), Rest(s, k))
    ELSE /\ s # <<>>
         /\ MatchChar(p[1], s[1])
         /\ MatchHere(Tail(p), Tail(s))

\* regex.search(s) is not None
Search(p, s) == \E k \in 0..Len(s) : MatchHere(p, Rest(s, k))

HasNaNTitle(df) == \E i \in 1..Len(df.rows) : df.rows[i]["title"] = NaN

\* data_df['title'].str.lower().str.contains(search_term), used as a mask:
\* the rows whose lowered title the pattern is found in.  A NaN title gives
\* a NaN (object dtype) or a False (string dtype) in the mask.
Masked(df, term) ==
    [df EXCEPT !.rows =
       SelectSeq(df.rows,
                 LAMBDA row : /\ row["title"] # NaN
                              /\ Search(term, Lower(row["title"])))]

\* What the installed pandas puts in the mask for a NaN title: NaN, which
\* the indexing then rejects, or False.
NaPolicies == {"raise", "false"}

\* Lines 80-86: the value of filtered_df, or the exception the lines raise.
Filter(df, q, na) ==
    LET term == SearchTerm(q)
    IN  IF ~Truthy(term) THEN Return(df, "none")
        ELSE IF "title" \notin df.columns THEN Raise("KeyError")
        ELSE IF ~Compiles(term) THEN Raise("re.error")
        ELSE IF na = "raise" /\ HasNaNTitle(df) THEN Raise("ValueError")
        ELSE Return(Masked(df, term), "none")

\* Lines 91-100: the links are rendered, or the warning when there are none.
Render(df) ==
    IF df.rows = <<>> THEN Return(df, "no_matches")
    ELSE IF "title" \notin df.columns THEN Raise("KeyError")
    ELSE Return(df, "results")

\* ------------------------------------------------------------------ state
VARIABLES
    cache,      \* the st.cache_data entry of fetch_github_data
    response,   \* the source's answer to the request of the current run
    pc,         \* where the script run is
    query,      \* the text of the search box
    data_df,    \* line 67
    filtered,   \* filtered_df, lines 81-86
    exc,        \* the exception that ended the run, "none" otherwise
    view,       \* what the run rendered
    lastCall    \* how the run's fetch_github_data() call was served

vars == <<cache, response, pc, query, data_df, filtered, exc,
          view, lastCall>>

Init ==
    /\ cache = EmptyCache
    /\ response = NoResponse
    /\ pc = "call"
    /\ query = <<>>
    /\ data_df = Unset
    /\ filtered = Unset
    /\ exc = "none"
    /\ view = "none"
    /\ lastCall = "none"

\* Line 67 with a stored value: the call returns it, the body does not run.
CacheHit ==
    /\ pc = "call"
    /\ CacheLookup(cache)
    /\ data_df' = cache.value
    /\ lastCall' = "hit"
    /\ pc' = "loaded"
    /\ UNCHANGED <<cache, response, query, filtered, exc, view>>

\* Line 67 without one: the body runs and requests.get(url) is issued.
CacheMiss ==
    /\ pc = "call"
    /\ ~CacheLookup(cache)
    /\ lastCall' = "miss"
    /\ pc' = "fetching"
    /\ UNCHANGED <<cache, response, query, data_df, filtered, exc,
                   view>>

\* requests.get returns or raises; lines 41-63 run; a returned value is
\* stored by st.cache_data, an escaping exception ends the script run.
Respond ==
    /\ pc = "fetching"
    /\ \E r \in Responses :
         LET out == fetch_github_data(r)
         IN  /\ response' = r
             /\ IF out.raised = "none"
                THEN /\ cache' = [populated |-> TRUE, value |-> out.value,
                                  msg |-> out.msg]
                     /\ data_df' = out.value
                     /\ pc' = "loaded"
                     /\ exc' = "none"
                     /\ view' = view
                ELSE /\ cache' = cache
                     /\ data_df' = Unset
                     /\ pc' = "crashed"
                     /\ exc' = out.raised
                     /\ view' = "exception"
    /\ UNCHANGED <<query, filtered, lastCall>>

\* Lines 69-100 of the run: nothing but the loader's message when data_df is
\* None, otherwise the filter and the rendering of its result.
Body ==
    /\ pc = "loaded"
    /\ IF data_df = None
       THEN /\ filtered' = Unset
            /\ view' = "load_failed"
            /\ exc' = "none"
            /\ pc' = "done"
       ELSE \E na \in NaPolicies :
            LET f == Filter(data_df, query, na)
            IN  IF f.raised # "none"
                THEN /\ filtered' = Unset
                     /\ view' = "exception"
                     /\ exc' = f.raised
                     /\ pc' = "crashed"
                ELSE LET r == Render(f.value)
                     IN  /\ filtered' = f.value
                         /\ view' = IF r.raised = "none" THEN r.msg
                                    ELSE "exception"
                         /\ exc' = r.raised
                         /\ pc' = IF r.raised = "none" THEN "done"
                                  ELSE "crashed"
    /\ UNCHANGED <<cache, response, query, data_df, lastCall>>

\* The user edits the search box: Streamlit runs the script again from the
\* top, in the same process and with the same st.cache_data store.
Rerun ==
    /\ pc \in {"done", "crashed"}
    /\ \E q \in Queries : query' = q
    /\ pc' = "call"
    /\ data_df' = Unset
    /\ filtered' = Unset
    /\ exc' = "none"
    /\ view' = "none"
    /\ lastCall' = "none"
    /\ response' = NoResponse
    /\ UNCHANGED cache

Next == CacheHit \/ CacheMiss \/ Respond \/ Body \/ Rerun

Spec == Init /\ [][Next]_vars

\* The script's own steps are taken when they can be; the source's answer
\* and the user's edits are not the program's to schedule.
FairSpec ==
    Spec /\ WF_vars(CacheHit) /\ WF_vars(CacheMiss) /\ WF_vars(Body)

\* ================================================================ claims
\* The run has passed line 67 with a table in data_df.
Loaded == pc \in {"loaded", "done", "crashed"} /\ IsDataFrame(data_df)

\* Lines 69-100 have run on a table.
Filtered == pc \in {"done", "crashed"} /\ IsDataFrame(data_df)

\* The current run's call reached the source and was answered with a
\* mapping that has the 'links' list.
AnsweredWithLinks ==
    /\ lastCall = "miss"
    /\ response.transport = "ok"
    /\ response.body.has_links

\* C1: a load() that failed (it returned None) leaves nothing in the cache,
\* so that the next call asks the source again.
FailedLoadNotCached ==
    (pc \in {"loaded", "done"} /\ data_df = None) => ~cache.populated

\* C2: once the cache holds an index, no step changes the cache or issues a
\* network request, and every later call returns the index the cache holds.
SuccessIsCached ==
    [][(cache.populated /\ IsDataFrame(cache.value)) =>
          /\ cache' = cache
          /\ pc' # "fetching"
          /\ (pc = "call" => data_df' = cache.value)]_vars

\* C2 witness: a later run was served the index from the cache, without a
\* request, and has rendered it.
SuccessIsCachedWitness ==
    /\ pc = "done"
    /\ lastCall = "hit"
    /\ response = NoResponse
    /\ IsDataFrame(data_df)
    /\ data_df = cache.value

\* C3: for a non-empty query, the rows the filter returns are exactly the
\* rows whose lowered title has the lowered query as a literal substring.
FilterIsSubstringPredicate ==
    (Filtered /\ query # <<>> /\ filtered # Unset) =>
        LET q == [i \in 1..Len(query) |->
                    IF query[i] = "T" THEN "t" ELSE query[i]]
            low(t) == [i \in 1..Len(t) |-> IF t[i] = "T" THEN "t" ELSE t[i]]
            occurs(t) == \E k \in 0..(Len(t) - Len(q)) :
                            SubSeq(low(t), k + 1, k + Len(q)) = q
        IN  filtered.rows =
                SelectSeq(data_df.rows, LAMBDA row : occurs(row["title"]))

\* C4: load() returns an index or None; no exception escapes it.
LoadNeverRaises == ~(pc = "crashed" /\ data_df = Unset)

\* C5: the index of a successful load holds exactly the records that have
\* both fields: no row has a missing title or path, or a link built from a
\* missing path.
IncompleteRecordsExcluded ==
    (Loaded /\ AnsweredWithLinks) =>
        LET links == response.body.links
            complete == SelectSeq(links,
                                  LAMBDA r : DOMAIN r = {"title", "url"})
        IN  /\ Len(data_df.rows) = Len(complete)
            /\ \A i \in 1..Len(data_df.rows) :
                 /\ DOMAIN data_df.rows[i] = {"title", "url", "full_url"}
                 /\ data_df.rows[i]["title"] # NaN
                 /\ data_df.rows[i]["url"] # NaN
                 /\ data_df.rows[i]["full_url"] # BASE_DOC_URL \o <<"nan">>

\* C6: a successful load of a payload of N records that all have both fields
\* gives N rows in payload order, each link the base URL followed by the path.
WellFormedLoad ==
    (/\ Loaded
     /\ AnsweredWithLinks
     /\ \A i \in 1..Len(response.body.links) :
           DOMAIN response.body.links[i] = {"title", "url"}) =>
        LET links == response.body.links
        IN  /\ Len(data_df.rows) = Len(links)
            /\ \A i \in 1..Len(links) :
                 /\ data_df.rows[i]["title"] = links[i].title
                 /\ data_df.rows[i]["url"] = links[i].url
                 /\ data_df.rows[i]["full_url"] = BASE_DOC_URL \o links[i].url

\* C6 witness: a load of two distinct well-formed records has returned.
WellFormedLoadWitness ==
    /\ Loaded
    /\ AnsweredWithLinks
    /\ Len(response.body.links) >= 2
    /\ \A i \in 1..Len(response.body.links) :
          DOMAIN response.body.links[i] = {"title", "url"}
    /\ response.body.links[1].title # response.body.links[2].title
    /\ response.body.links[1].url # response.body.links[2].url

\* C7 as claimed: a query that is empty after trimming (empty, or spaces
\* only) gives the full index.
BlankQueryReturnsAll ==
    (/\ Filtered
     /\ "title" \in data_df.columns
     /\ \A i \in 1..Len(data_df.rows) : data_df.rows[i]["title"] # NaN
     /\ \A i \in 1..Len(query) : query[i] = " ") =>
        filtered = data_df

\* C7 as amended: the empty query gives the full index, unchanged.
EmptyQueryReturnsAll == (Filtered /\ query = <<>>) => filtered = data_df

\* C7 witness: a run with an empty search box has rendered a two-row index.
EmptyQueryReturnsAllWitness ==
    /\ pc = "done"
    /\ query = <<>>
    /\ IsDataFrame(data_df)
    /\ Len(data_df.rows) >= 2
    /\ view = "results"

\* C8: when no title of the index contains the query, the filter gives the
\* empty result and the "no matches" message, never an error; the message is
\* shown only for a loaded index, never for a failed load.
NoMatchIsEmptyResult ==
    /\ (/\ Filtered
        /\ query # <<>>
        /\ "title" \in data_df.columns
        /\ \A i \in 1..Len(data_df.rows) :
              LET t == data_df.rows[i]["title"]
              IN  /\ t # NaN
                  /\ ~\E k \in 0..(Len(t) - Len(query)) :
                        \A j \in 1..Len(query) :
                           (IF t[k + j] = "T" THEN "t" ELSE t[k + j])
                              = (IF query[j] = "T" THEN "t" ELSE query[j]))
       => (/\ exc = "none"
           /\ view = "no_matches"
           /\ filtered # Unset
           /\ filtered.rows = <<>>)
    /\ view = "no_matches" => Loaded

\* C9: a request in flight always comes to an end.
LoadTerminates == (pc = "fetching") ~> (pc # "fetching")

\* C10: the result of the filter is a subsequence of the index, the index is
\* the one the cache holds, and a query that differs from the typed one only
\* in letter case gives the same result.
CaseInsensitiveStable ==
    Filtered =>
        /\ data_df = cache.value
        /\ filtered # Unset =>
             /\ filtered.columns = data_df.columns
             /\ \E f \in [1..Len(filtered.rows) -> 1..Len(data_df.rows)] :
                  /\ \A i, j \in 1..Len(filtered.rows) : i < j => f[i] < f[j]
                  /\ \A i \in 1..Len(filtered.rows) :
                        filtered.rows[i] = data_df.rows[f[i]]
        /\ \A flip \in SUBSET {i \in 1..Len(query) : query[i] \in {"t", "T"}} :
             LET q2 == [i \in 1..Len(query) |->
                          IF i \notin flip THEN query[i]
                          ELSE IF query[i] = "t" THEN "T" ELSE "t"]
             IN  \E na \in NaPolicies :
                    /\ Filter(data_df, query, na).raised =
                          (IF filtered = Unset THEN exc ELSE "none")
                    /\ filtered # Unset =>
                          Filter(data_df, query, na).value = filtered
                    /\ Filter(data_df, q2, na) = Filter(data_df, query, na)

\* C10 witness: a query typed with a capital letter has selected some rows
\* of the index and not others.
CaseInsensitiveStableWitness ==
    /\ pc = "done"
    /\ IsDataFrame(data_df)
    /\ \E i \in 1..Len(query) : query[i] = "T"
    /\ filtered # Unset
    /\ filtered.rows # <<>>
    /\ Len(filtered.rows) < Len(data_df.rows)
====
